---- MODULE Spec2Model ----
(***************************************************************************)
(* cargo-with: run the artifact of a cargo build through a wrapper         *)
(* command.  The module models the orchestrators `runner` (runner.rs) and  *)
(* `run` (lib.rs), the cargo command and artifact selection of cargo.rs,   *)
(* the placeholder expansion of with_command.rs and the argument split of  *)
(* main.rs.                                                                *)
(*                                                                         *)
(* A Rust string is a sequence of atoms.  An atom is either a whitespace   *)
(* character, a placeholder text ("{bin}", "{args}") or a run of other     *)
(* characters that holds no part of a placeholder, so `s.contains(p)` for  *)
(* a placeholder p is "p is an atom of s" and `s == p` is "s = <<p>>".     *)
(***************************************************************************)
EXTENDS Integers, Sequences, FiniteSets, TLC

\* ------------------------------------------------------------------ bounds
MaxCargoToks == 3
MaxTemplateToks == 2
MaxLines == 2
MaxRawLen == 3
MaxTrailing == 2

\* ----------------------------------------------------------------- strings
Str(a) == <<a>>

\* Rust's Result, Option and a panic (which unwinds out of every caller).
Ok(v) == [tag |-> "Ok", val |-> v]
Err(m) == [tag |-> "Err", msg |-> m]
Panic(m) == [tag |-> "Panic", msg |-> m]
Some(v) == [some |-> TRUE, val |-> v]
None == [some |-> FALSE]

\* Iterator::flatten / flat_map: the items of the inner sequences, in order
RECURSIVE flatten(_)
flatten(ss) == IF ss = <<>> THEN <<>> ELSE Head(ss) \o flatten(Tail(ss))

\* str::contains(pat) for a placeholder pattern
contains(s, pat) == \E i \in 1..Len(s) : s[i] = pat

\* str::replace(pat, by): every occurrence, left to right, in one pass
replace(s, pat, by) ==
    LET One(a) == IF a = pat THEN by ELSE <<a>>
    IN flatten([i \in 1..Len(s) |-> One(s[i])])

\* str::split_whitespace: the maximal runs of non-whitespace atoms
RECURSIVE split_ws(_, _)
split_ws(s, cur) ==
    IF s = <<>> THEN (IF cur = <<>> THEN <<>> ELSE <<cur>>)
    ELSE IF Head(s) = " "
         THEN (IF cur = <<>> THEN <<>> ELSE <<cur>>) \o split_ws(Tail(s), <<>>)
         ELSE split_ws(Tail(s), Append(cur, Head(s)))
split_whitespace(s) == split_ws(s, <<>>)

\* Iterator::take_while(p) and what `by_ref` leaves in the iterator after it:
\* take_while consumes the first element that fails p.
RECURSIVE take_while_ne(_, _)
take_while_ne(s, stop) ==
    IF s = <<>> \/ Head(s) = stop THEN <<>>
    ELSE <<Head(s)>> \o take_while_ne(Tail(s), stop)
RECURSIVE rest_after_take_while_ne(_, _)
rest_after_take_while_ne(s, stop) ==
    IF s = <<>> THEN <<>>
    ELSE IF Head(s) = stop THEN Tail(s)
    ELSE rest_after_take_while_ne(Tail(s), stop)

\* ---------------------------------------------------------------- cargo.rs
\* (the backquotes of the source's messages are written as apostrophes)
DEFAULT_CARGO_ARGS == <<Str("--message-format=json"), Str("--quiet")>>

CmdKind_from_str_bench(s) ==
    IF s = Str("run") THEN Some("Run")
    ELSE IF s = Str("test") \/ s = Str("bench") THEN Some("Test")
    ELSE None
CmdKind_from_str(s) ==
    IF s = Str("run") THEN Some("Run")
    ELSE IF s = Str("test") THEN Some("Test")
    ELSE None

as_artifact_cmd(kind) ==
    IF kind = "Run" THEN Str("build") ELSE Str("test")

Cmd_from_strs(strs) ==
    IF strs = <<>> THEN Err(<<"Empty cargo command">>)
    ELSE LET kind == CmdKind_from_str(Head(strs))
         IN IF kind.some
            THEN Ok([kind |-> kind.val, args |-> Tail(strs)])
            ELSE Err(<<"Unable to convert '", Head(strs), "' into a cargo subcommand">>)

Cmd_args(cmd) == <<as_artifact_cmd(cmd.kind)>> \o DEFAULT_CARGO_ARGS \o cmd.args

\* Cmd::args_str: the arguments joined by single spaces
RECURSIVE join_space(_)
join_space(ss) ==
    IF ss = <<>> THEN <<>>
    ELSE IF Len(ss) = 1 THEN Head(ss)
    ELSE Head(ss) \o <<" ">> \o join_space(Tail(ss))
Cmd_args_str(cmd) == join_space(Cmd_args(cmd))

\* #[serde(rename_all = "kebab-case")] enum TargetKind: the tags that decode
TargetKind ==
    {"example", "test", "bin", "lib", "rlib", "dylib", "proc-macro", "bench", "custom-build"}

\* serde_json::from_str::<BuildOpt>(line).  A line of cargo's output is
\* abstracted by its shape: "artifact" is a JSON object carrying every field
\* BuildOpt requires (`reason: String` takes any text), "build-script-executed"
\* is a JSON object without them.  Each tag of target.kind must be a TargetKind.
from_str_BuildOpt(line) ==
    IF line.shape = "artifact"
         /\ \A i \in 1..Len(line.opt.target.kind) : line.opt.target.kind[i] \in TargetKind
    THEN Ok(line.opt)
    ELSE Err(<<"serde_json error">>)

\* .lines().flat_map(serde_json::from_str::<BuildOpt>).collect()
parse_lines(lines) ==
    LET One(l) == LET r == from_str_BuildOpt(l)
                  IN IF r.tag = "Ok" THEN <<r.val>> ELSE <<>>
    IN flatten([i \in 1..Len(lines) |-> One(lines[i])])

CARGO_FAILED_HINT ==
    "Cargo subcommand failed. Try running the original cargo command (without cargo-with)"

\* Cmd::run, given what `Command::new("cargo").args(..).output()` produced:
\* out.spawned is whether the process could be run at all.
Cmd_run(cmd, out) ==
    IF ~out.spawned
    THEN Err(<<"Unable to run cargo command: 'cargo ", Cmd_args_str(cmd), "'">>)
    ELSE IF ~out.success
    THEN (IF out.stderr.utf8 /\ out.stdout.utf8
          THEN Err(<<out.stderr.text, "\n", out.stdout.lines, "\n", CARGO_FAILED_HINT>>)
          ELSE Panic(<<"called 'Result::unwrap()' on an 'Err' value: Utf8Error">>))
    ELSE IF ~out.stdout.utf8
    THEN Err(<<"Output of 'cargo ", Cmd_args_str(cmd), "' contained invalid UTF-8 characters">>)
    ELSE Ok(parse_lines(out.stdout.lines))

look_for == {"bin", "example", "test"}

\* the filter closure of select_buildopt
is_candidate(opt, cmd_kind) ==
    IF cmd_kind = "Test"
    THEN opt.profile.test
    ELSE \E i \in 1..Len(opt.target.kind) : opt.target.kind[i] \in look_for

TEST_HINT ==
    "\n\nPlease use '--test', '--example', '--bin' or '--lib' to specify exactly what binary you want to examine"
RUN_HINT ==
    "\n\nPlease use '--example' or '--bin' to specify exactly what binary you want to examine"

\* format!("\t- {} ({})\n", opt.target.name, opt.target.kind[0]); indexing an
\* empty kind list panics
candidate_line(opt) == "\t- " \o opt.target.name \o " (" \o opt.target.kind[1] \o ")\n"

select_buildopt_last(opts, cmd_kind) ==
    LET candidates == SelectSeq(opts, LAMBDA o : is_candidate(o, cmd_kind))
    IN IF candidates = <<>> THEN Err(<<"Found no possible candidates">>)
       ELSE Ok(candidates[Len(candidates)])
select_buildopt(opts, cmd_kind) ==
    LET candidates == SelectSeq(opts, LAMBDA o : is_candidate(o, cmd_kind))
    IN IF candidates = <<>> THEN Err(<<"Found no possible candidates">>)
       ELSE IF Len(candidates) > 1
       THEN (IF \E i \in 1..Len(candidates) : candidates[i].target.kind = <<>>
             THEN Panic(<<"index out of bounds: the len is 0 but the index is 0">>)
             ELSE Err(<<"Found more than one possible candidate:\n\n",
                        [i \in 1..Len(candidates) |-> candidate_line(candidates[i])],
                        IF cmd_kind = "Test" THEN TEST_HINT ELSE RUN_HINT>>))
       ELSE Ok(candidates[1])

\* BuildOpt::artifact: `self.filenames[0]` panics on an empty list
artifact(opt) ==
    IF opt.filenames = <<>>
    THEN Panic(<<"index out of bounds: the len is 0 but the index is 0">>)
    ELSE Ok(opt.filenames[1])

\* Path::to_str: None when the path is not valid UTF-8
to_str(path) == IF path.utf8 THEN Some(path.text) ELSE None

\* ------------------------------------------------------------------ lib.rs
\* select_buildopt of lib.rs: the same filter and policy; the message names
\* the first candidate in the format string and joins the others with "\n".
lib_candidate_line(opt) == "\t- " \o opt.target.name \o " (" \o opt.target.kind[1] \o ")"
lib_select_buildopt(opts, cmd_kind) ==
    LET candidates == SelectSeq(opts, LAMBDA o : is_candidate(o, cmd_kind))
    IN IF candidates = <<>> THEN Err(<<"Found no possible candidates">>)
       ELSE IF Len(candidates) > 1
       THEN (IF \E i \in 1..Len(candidates) : candidates[i].target.kind = <<>>
             THEN Panic(<<"index out of bounds: the len is 0 but the index is 0">>)
             ELSE Err(<<"Found more than one possible candidate:\n\n",
                        <<lib_candidate_line(candidates[1]) \o "\n">>
                          \o [i \in 1..(Len(candidates) - 1) |->
                                lib_candidate_line(candidates[i + 1])
                                  \o (IF i + 1 < Len(candidates) THEN "\n" ELSE "")],
                        IF cmd_kind = "Test" THEN TEST_HINT ELSE RUN_HINT>>))
       ELSE Ok(candidates[1])

\* `buildopt.filenames[0]` of run
lib_filenames0(opt) ==
    IF opt.filenames = <<>>
    THEN Panic(<<"index out of bounds: the len is 0 but the index is 0">>)
    ELSE Ok(opt.filenames[1])

\* run, lines 45-85: the command to launch, from the wrapper tokens
run_command(cmd_it, artifact_path, args_after) ==
    IF cmd_it = <<>> THEN Err(<<"Empty with command">>)
    ELSE LET cmd == Head(cmd_it)
             args == Tail(cmd_it)
             found_bin == \E i \in 1..Len(args) : args[i] = Str("{bin}")
             found_args == \E i \in 1..Len(args) : args[i] = Str("{args}")
             One(el) == IF el = Str("{bin}") THEN <<artifact_path>>
                        ELSE IF el = Str("{args}") THEN args_after
                        ELSE <<el>>
             expanded == flatten([i \in 1..Len(args) |-> One(args[i])])
             with_bin == IF found_bin THEN expanded ELSE Append(expanded, artifact_path)
             with_args == IF found_args THEN with_bin ELSE with_bin \o args_after
         IN Ok(<<cmd>> \o with_args)

\* --------------------------------------------------------------- runner.rs
\* runner, lines 35-57: the command to launch, from the wrapper tokens
runner_command(cmd_it, artifact_str, args_after) ==
    IF cmd_it = <<>> THEN Err(<<"Empty with command">>)
    ELSE LET cmd == Head(cmd_it)
             args0 == Tail(cmd_it)
             args1 == IF \E i \in 1..Len(args0) : args0[i] = Str("{bin}")
                      THEN args0 ELSE Append(args0, Str("{bin}"))
             args2 == IF \E i \in 1..Len(args1) : args1[i] = Str("{args}")
                      THEN args1 ELSE Append(args1, Str("{args}"))
             One(el) == IF el = Str("{bin}") THEN <<artifact_str>>
                        ELSE IF el = Str("{args}") THEN args_after
                        ELSE <<el>>
         IN Ok(<<cmd>> \o flatten([i \in 1..Len(args2) |-> One(args2[i])]))

\* --------------------------------------------------------- with_command.rs
\* WithCmd::new: the value of the field split_cmd
WithCmd_new(raw_str, trailing) ==
    LET split_raw0 == split_whitespace(raw_str)
        split_raw1 == IF ~contains(raw_str, "{bin}")
                      THEN Append(split_raw0, Str("{bin}")) ELSE split_raw0
        split_raw2 == IF ~contains(raw_str, "{args}")
                      THEN Append(split_raw1, Str("{args}")) ELSE split_raw1
        One(el) == IF el = Str("{args}") THEN trailing ELSE <<el>>
    IN flatten([i \in 1..Len(split_raw2) |-> One(split_raw2[i])])

\* WithCmd::child_command: the program followed by its arguments
child_command(split, bin_path_str) ==
    IF split # <<>>
    THEN Ok([i \in 1..Len(split) |-> replace(split[i], "{bin}", bin_path_str)])
    ELSE Err(<<"No child command given.">>)

\* ----------------------------------------------------------------- main.rs
\* <[T]>::split(|s| *s == "--"): the pieces between the separators
RECURSIVE slice_split(_, _, _)
slice_split(s, sep, cur) ==
    IF s = <<>> THEN <<cur>>
    ELSE IF Head(s) = sep THEN <<cur>> \o slice_split(Tail(s), sep, <<>>)
    ELSE slice_split(Tail(s), sep, Append(cur, Head(s)))

\* CargoCmd::new
CargoCmd_new(args) ==
    IF ~(args # <<>> /\ Head(args) = Str("run")) /\ ~(args # <<>> /\ Head(args) = Str("test"))
    THEN Err(<<"Only the 'run' and 'test' cargo commands are supported">>)
    ELSE LET pieces == slice_split(args, Str("--"), <<>>)
         IN Ok([cmd |-> Head(pieces),
                downstream_args |-> flatten(Tail(pieces))])

\* serde_json::from_str::<BuildOpt>(l) of main.rs, where kind is a Vec<String>
main_from_str_BuildOpt(line) ==
    IF line.shape = "artifact" THEN Ok(line.opt) ELSE Err(<<"serde_json error">>)

\* CargoCmd::create_artifact, given what running cargo produced.  Its last
\* expression (lines 129-133) is read as Ok(candidate) / Err(message).
create_artifact_args(self) ==
    <<IF Head(self.cmd) = Str("run") THEN Str("build") ELSE Head(self.cmd)>>
      \o <<Str("--message-format=json"), Str("--quiet")>> \o Tail(self.cmd)
create_artifact(self, out) ==
    IF ~out.spawned THEN Panic(<<"cargo command failed :(">>)
    ELSE IF ~out.success
    THEN Err(<<"Failed to run cargo command. Try running the original cargo command (without cargo-with)">>)
    ELSE IF ~out.stdout.utf8
    THEN Panic(<<"called 'Result::unwrap()' on an 'Err' value: Utf8Error">>)
    ELSE LET One(l) == LET r == main_from_str_BuildOpt(l)
                       IN IF r.tag = "Ok" THEN <<r.val>> ELSE <<>>
             artifacts == flatten([i \in 1..Len(out.stdout.lines) |-> One(out.stdout.lines[i])])
             with_file == SelectSeq(artifacts, LAMBDA art : art.filenames # <<>>)
             paths == [i \in 1..Len(with_file) |-> with_file[i].filenames[1]]
             exec_candidates == SelectSeq(paths, LAMBDA path : path.ext \in {"exe", ""})
         IN IF Len(exec_candidates) = 1
            THEN Ok(exec_candidates[1])
            ELSE Err(<<"Could not determine executable candidate!">>)

\* fn main() -> Result<(), Error>: the exit status of the process
exit_status(res) ==
    IF res.tag = "Ok" THEN 0 ELSE IF res.tag = "Err" THEN 1 ELSE 101

\* ------------------------------------------------------------------- state
VARIABLES
    entry,                \* the operation under way: "runner", "run", "WithCmd", "CargoCmd"
    pc,                   \* its position
    cargo_cmd_iter,       \* runner/run: the raw cargo tokens; CargoCmd::new: args
    cmd_iter,             \* runner/run: the tokens of the wrapper command
    subcmd_str,           \* runner/run: the tokens before the first "--"
    args_after_cargo_cmd, \* runner/run: what the iterator still holds after them
    cargo_cmd,            \* the cargo::Cmd (runner/run) or CargoCmd (main.rs) built
    cargo_calls,          \* the argument vectors `cargo` was run with, in order
    build_out,            \* what the last run of cargo produced
    run_result,           \* the value of cargo_cmd.run()
    buildopts,            \* the decoded artifact records
    buildopt,             \* the selected record
    artifact_str,         \* runner/run: the artifact path; WithCmd: bin_path
    raw,                  \* WithCmd::new: the wrapper command string
    trailing_args,        \* WithCmd::new: the trailing arguments
    split_cmd,            \* WithCmd: the field split_cmd
    command,              \* the command built: the program, then its arguments
    launches,             \* the commands spawned, in order
    child,                \* what became of the spawned command
    steps,                \* the steps of the pipeline executed so far, in order
    result                \* the value the operation returned, or Running

vars == <<entry, pc, cargo_cmd_iter, cmd_iter, subcmd_str, args_after_cargo_cmd,
          cargo_cmd, cargo_calls, build_out, run_result, buildopts, buildopt,
          artifact_str, raw, trailing_args, split_cmd, command, launches, child,
          steps, result>>

Running == [tag |-> "Running"]

RECURSIVE SeqsUpTo(_, _)
SeqsUpTo(S, n) ==
    IF n = 0 THEN {<<>>}
    ELSE LET shorter == SeqsUpTo(S, n - 1)
         IN shorter \cup {Append(q, x) : q \in {r \in shorter : Len(r) = n - 1}, x \in S}

\* ------------------------------------------------------------------ inputs
CargoToks == {Str("run"), Str("test"), Str("bench"), Str("--"), Str("-x"), <<"-o=", "{bin}">>}
TemplateToks == {Str("gdb"), Str("{bin}"), Str("{args}"), <<"-f=", "{bin}">>}
RawAtoms == {" ", "gdb", "x=", "{bin}", "{args}"}
TrailingToks == {Str("-v"), <<"-o=", "{bin}">>}

\* a path: whether it is valid UTF-8, its text, its extension ("" for none)
GoodPath == [utf8 |-> TRUE, text |-> Str("/tmp/bin"), ext |-> ""]
LibPath == [utf8 |-> TRUE, text |-> Str("/tmp/libmylib.rlib"), ext |-> "rlib"]
BadPath == [utf8 |-> FALSE, text |-> Str("/tmp/b\\xff"), ext |-> ""]

BuildOpt(name, kinds, test, files) ==
    [filenames |-> files, profile |-> [test |-> test], reason |-> "compiler-artifact",
     target |-> [kind |-> kinds, name |-> name]]

Lines ==
    { [shape |-> "artifact", opt |-> BuildOpt("app", <<"bin">>, FALSE, <<GoodPath>>)],
      [shape |-> "artifact", opt |-> BuildOpt("mylib", <<"lib">>, TRUE, <<LibPath, BadPath>>)],
      [shape |-> "artifact", opt |-> BuildOpt("it", <<"test">>, TRUE, <<>>)],
      [shape |-> "artifact", opt |-> BuildOpt("odd", <<>>, TRUE, <<BadPath>>)],
      [shape |-> "artifact", opt |-> BuildOpt("ffi", <<"cdylib">>, FALSE, <<LibPath>>)],
      [shape |-> "artifact",
       opt |-> [BuildOpt("fresh", <<"bin">>, FALSE, <<GoodPath>>) EXCEPT !.reason = "other-reason"]],
      [shape |-> "build-script-executed"] }

Stderrs == {[utf8 |-> TRUE, text |-> "error: could not compile"], [utf8 |-> FALSE, text |-> ""]}
Stdouts == {[utf8 |-> TRUE, lines |-> l] : l \in SeqsUpTo(Lines, MaxLines)}
             \cup {[utf8 |-> FALSE, lines |-> <<>>]}

NotSpawned == [spawned |-> FALSE]
CargoOutputs ==
    {NotSpawned}
      \cup {[spawned |-> TRUE, success |-> FALSE, stdout |-> o, stderr |-> e] :
              o \in Stdouts, e \in Stderrs}
      \cup {[spawned |-> TRUE, success |-> TRUE, stdout |-> o, stderr |-> [utf8 |-> TRUE, text |-> ""]] :
              o \in Stdouts}

\* the spawned command: not spawned, wait() failed, or exited with a code
ChildOutcomes ==
    {[spawned |-> FALSE], [spawned |-> TRUE, waited |-> FALSE],
     [spawned |-> TRUE, waited |-> TRUE, code |-> 0],
     [spawned |-> TRUE, waited |-> TRUE, code |-> 3]}

Idle ==
    /\ subcmd_str = <<>> /\ args_after_cargo_cmd = <<>> /\ cargo_cmd = None
    /\ cargo_calls = <<>> /\ build_out = NotSpawned /\ run_result = Running
    /\ buildopts = <<>> /\ buildopt = None /\ split_cmd = <<>> /\ command = <<>>
    /\ launches = <<>> /\ child = [spawned |-> FALSE] /\ steps = <<>>
    /\ result = Running /\ pc = "start"

Init ==
    /\ Idle
    /\ \/ /\ entry \in {"runner", "run"}
          /\ cargo_cmd_iter \in SeqsUpTo(CargoToks, MaxCargoToks)
          /\ cmd_iter \in SeqsUpTo(TemplateToks, MaxTemplateToks)
          /\ raw = <<>> /\ trailing_args = <<>> /\ artifact_str = <<>>
       \/ /\ entry = "WithCmd"
          /\ raw \in SeqsUpTo(RawAtoms, MaxRawLen)
          /\ trailing_args \in SeqsUpTo(TrailingToks, MaxTrailing)
          /\ artifact_str \in {GoodPath.text}
          /\ cargo_cmd_iter = <<>> /\ cmd_iter = <<>>
       \/ /\ entry = "CargoCmd"
          /\ cargo_cmd_iter \in SeqsUpTo(CargoToks, MaxCargoToks)
          /\ cmd_iter = <<>> /\ raw = <<>> /\ trailing_args = <<>> /\ artifact_str = <<>>

\* ----------------------------------------------------------------- actions
Pipeline == entry \in {"runner", "run"}

Finish(r) == result' = r /\ pc' = "done"

\* runner lines 14-21 / run lines 26-33: split the raw cargo tokens
runner_split(it) ==
    [subcmd_str |-> take_while_ne(it, Str("--")),
     args_after_cargo_cmd |-> rest_after_take_while_ne(it, Str("--"))]
run_split(it) ==
    [subcmd_str |-> take_while_ne(it, Str("--")),
     args_after_cargo_cmd |-> rest_after_take_while_ne(it, Str("--"))]

\* runner lines 14-24 / run lines 26-36: split, then cargo::Cmd::from_strs(..)?
ParseArguments ==
    /\ Pipeline /\ pc = "start"
    /\ LET sp == IF entry = "runner" THEN runner_split(cargo_cmd_iter)
                 ELSE run_split(cargo_cmd_iter)
           r == Cmd_from_strs(sp.subcmd_str)
       IN /\ subcmd_str' = sp.subcmd_str
          /\ args_after_cargo_cmd' = sp.args_after_cargo_cmd
          /\ IF r.tag = "Ok"
             THEN cargo_cmd' = Some(r.val) /\ pc' = "invoke_build" /\ result' = result
             ELSE cargo_cmd' = cargo_cmd /\ Finish(r)
    /\ steps' = Append(steps, "parse-arguments")
    /\ UNCHANGED <<entry, cargo_cmd_iter, cmd_iter, cargo_calls, build_out, run_result,
                   buildopts, buildopt, artifact_str, raw, trailing_args, split_cmd,
                   command, launches, child>>

\* cargo_cmd.run()?, up to the exit status of cargo (Cmd::run lines 92-105)
InvokeBuild ==
    /\ Pipeline /\ pc = "invoke_build"
    /\ \E out \in CargoOutputs :
          LET r == Cmd_run(cargo_cmd.val, out)
          IN /\ cargo_calls' = Append(cargo_calls, Cmd_args(cargo_cmd.val))
             /\ build_out' = out
             /\ run_result' = r
             /\ IF out.spawned /\ out.success
                THEN pc' = "parse_output" /\ result' = result
                ELSE Finish(r)
    /\ steps' = Append(steps, "invoke-build")
    /\ UNCHANGED <<entry, cargo_cmd_iter, cmd_iter, subcmd_str, args_after_cargo_cmd,
                   cargo_cmd, buildopts, buildopt, artifact_str, raw, trailing_args,
                   split_cmd, command, launches, child>>

\* cargo_cmd.run()?, the decoding of cargo's output (Cmd::run lines 107-119)
ParseOutput ==
    /\ Pipeline /\ pc = "parse_output"
    /\ IF run_result.tag = "Ok"
       THEN buildopts' = run_result.val /\ pc' = "select" /\ result' = result
       ELSE buildopts' = buildopts /\ Finish(run_result)
    /\ steps' = Append(steps, "parse-output")
    /\ UNCHANGED <<entry, cargo_cmd_iter, cmd_iter, subcmd_str, args_after_cargo_cmd,
                   cargo_cmd, cargo_calls, build_out, run_result, buildopt,
                   artifact_str, raw, trailing_args, split_cmd, command, launches, child>>

\* runner lines 27-33 / run lines 39-43: select the record, take its path
SelectCandidate ==
    /\ Pipeline /\ pc = "select"
    /\ LET r == IF entry = "runner" THEN select_buildopt(buildopts, cargo_cmd.val.kind)
                ELSE lib_select_buildopt(buildopts, cargo_cmd.val.kind)
       IN IF r.tag # "Ok"
          THEN Finish(r) /\ UNCHANGED <<buildopt, artifact_str>>
          ELSE /\ buildopt' = Some(r.val)
               /\ LET a == IF entry = "runner" THEN artifact(r.val) ELSE lib_filenames0(r.val)
                  IN IF a.tag # "Ok"
                     THEN Finish(a) /\ UNCHANGED artifact_str
                     ELSE IF ~to_str(a.val).some
                     THEN /\ Finish(Err(<<"Filename of artifact contains non-valid UTF-8 characters">>))
                          /\ UNCHANGED artifact_str
                     ELSE /\ artifact_str' = to_str(a.val).val
                          /\ pc' = "expand" /\ result' = result
    /\ steps' = Append(steps, "select-candidate")
    /\ UNCHANGED <<entry, cargo_cmd_iter, cmd_iter, subcmd_str, args_after_cargo_cmd,
                   cargo_cmd, cargo_calls, build_out, run_result, buildopts, raw,
                   trailing_args, split_cmd, command, launches, child>>

\* runner lines 35-57 / run lines 45-85: build the command to launch
ExpandTemplate ==
    /\ Pipeline /\ pc = "expand"
    /\ LET r == IF entry = "runner"
                THEN runner_command(cmd_iter, artifact_str, args_after_cargo_cmd)
                ELSE run_command(cmd_iter, artifact_str, args_after_cargo_cmd)
       IN IF r.tag = "Ok"
          THEN command' = r.val /\ pc' = "launch" /\ result' = result
          ELSE command' = command /\ Finish(r)
    /\ steps' = Append(steps, "expand-template")
    /\ UNCHANGED <<entry, cargo_cmd_iter, cmd_iter, subcmd_str, args_after_cargo_cmd,
                   cargo_cmd, cargo_calls, build_out, run_result, buildopts, buildopt,
                   artifact_str, raw, trailing_args, split_cmd, launches, child>>

\* Command::new(cmd).args(..).spawn().expect(..).wait()?; Ok(())
launch_result(c) ==
    IF ~c.spawned THEN Panic(<<"Failed to spawn child process">>)
    ELSE IF ~c.waited THEN Err(<<"wait failed">>)
    ELSE Ok(<<>>)

\* runner lines 61-67 / run lines 89-95
Launch ==
    /\ Pipeline /\ pc = "launch"
    /\ \E c \in ChildOutcomes :
          /\ child' = c
          /\ Finish(launch_result(c))
    /\ launches' = Append(launches, command)
    /\ steps' = Append(steps, "launch")
    /\ UNCHANGED <<entry, cargo_cmd_iter, cmd_iter, subcmd_str, args_after_cargo_cmd,
                   cargo_cmd, cargo_calls, build_out, run_result, buildopts, buildopt,
                   artifact_str, raw, trailing_args, split_cmd, command>>

\* WithCmd::new(raw, &trailing_args)
WithCmdNew ==
    /\ entry = "WithCmd" /\ pc = "start"
    /\ split_cmd' = WithCmd_new(raw, trailing_args)
    /\ pc' = "constructed"
    /\ UNCHANGED <<entry, cargo_cmd_iter, cmd_iter, subcmd_str, args_after_cargo_cmd,
                   cargo_cmd, cargo_calls, build_out, run_result, buildopts, buildopt,
                   artifact_str, raw, trailing_args, command, launches, child, steps,
                   result>>

\* with_cmd.child_command(bin_path)
ChildCommand ==
    /\ entry = "WithCmd" /\ pc = "constructed"
    /\ LET r == child_command(split_cmd, artifact_str)
       IN /\ command' = IF r.tag = "Ok" THEN r.val ELSE command
          /\ Finish(r)
    /\ UNCHANGED <<entry, cargo_cmd_iter, cmd_iter, subcmd_str, args_after_cargo_cmd,
                   cargo_cmd, cargo_calls, build_out, run_result, buildopts, buildopt,
                   artifact_str, raw, trailing_args, split_cmd, launches, child, steps>>

\* CargoCmd::new(&cargo_cmd)? of main.rs
CargoCmdNew ==
    /\ entry = "CargoCmd" /\ pc = "start"
    /\ LET r == CargoCmd_new(cargo_cmd_iter)
       IN IF r.tag = "Ok"
          THEN cargo_cmd' = Some(r.val) /\ pc' = "constructed" /\ result' = result
          ELSE cargo_cmd' = cargo_cmd /\ Finish(r)
    /\ UNCHANGED <<entry, cargo_cmd_iter, cmd_iter, subcmd_str, args_after_cargo_cmd,
                   cargo_calls, build_out, run_result, buildopts, buildopt, artifact_str,
                   raw, trailing_args, split_cmd, command, launches, child, steps>>

\* cargo_cmd.create_artifact() of main.rs
CreateArtifact ==
    /\ entry = "CargoCmd" /\ pc = "constructed"
    /\ \E out \in CargoOutputs :
          /\ cargo_calls' = Append(cargo_calls, create_artifact_args(cargo_cmd.val))
          /\ build_out' = out
          /\ Finish(create_artifact(cargo_cmd.val, out))
    /\ UNCHANGED <<entry, cargo_cmd_iter, cmd_iter, subcmd_str, args_after_cargo_cmd,
                   cargo_cmd, run_result, buildopts, buildopt, artifact_str, raw,
                   trailing_args, split_cmd, command, launches, child, steps>>

Next ==
    \/ ParseArguments
    \/ InvokeBuild
    \/ ParseOutput
    \/ SelectCandidate
    \/ ExpandTemplate
    \/ Launch
    \/ WithCmdNew
    \/ ChildCommand
    \/ CargoCmdNew
    \/ CreateArtifact

Spec == Init /\ [][Next]_vars

\* ------------------------------------------------------------------ claims
PipelineOrder ==
    <<"parse-arguments", "invoke-build", "parse-output", "select-candidate",
      "expand-template", "launch">>

Did(step) == \E i \in 1..Len(steps) : steps[i] = step
Failed == result.tag \in {"Err", "Panic"}

\* the filter of the selection as the specification words it
PassesFilter(opt, kind) ==
    IF kind = "Test" THEN opt.profile.test = TRUE
    ELSE {opt.target.kind[i] : i \in 1..Len(opt.target.kind)} \cap {"bin", "example", "test"} # {}
Passing(opts, kind) == {i \in 1..Len(opts) : PassesFilter(opts[i], kind)}

\* C1 (as claimed): once selection has run, a record is returned iff exactly
\* one record passes the filter of the command kind, and it is that record;
\* with no passing record the result is the no-candidates error, with two or
\* more it is the ambiguity error.
C1_ExactlyOneOrError ==
    (Pipeline /\ Did("select-candidate")) =>
        LET passing == Passing(buildopts, cargo_cmd.val.kind)
        IN /\ buildopt.some <=> Cardinality(passing) = 1
           /\ buildopt.some => \E i \in passing : buildopt.val = buildopts[i]
           /\ Cardinality(passing) = 0 =>
                 result = Err(<<"Found no possible candidates">>)
           /\ Cardinality(passing) >= 2 =>
                 /\ result.tag = "Err"
                 /\ result.msg[1] = "Found more than one possible candidate:\n\n"

SelectPolicyUpToPanic ==
    (Pipeline /\ Did("select-candidate")) =>
        LET passing == Passing(buildopts, cargo_cmd.val.kind)
        IN /\ buildopt.some <=> Cardinality(passing) = 1
           /\ buildopt.some => \E i \in passing : buildopt.val = buildopts[i]
           /\ Cardinality(passing) = 0 =>
                 result = Err(<<"Found no possible candidates">>)
           /\ Cardinality(passing) >= 2 =>
                 IF \E i \in passing : buildopts[i].target.kind = <<>>
                 THEN result.tag = "Panic"
                 ELSE /\ result.tag = "Err"
                      /\ result.msg[1] = "Found more than one possible candidate:\n\n"

HasPlaceholder(s) == contains(s, "{bin}") \/ contains(s, "{args}")
Elems(q) == {q[i] : i \in 1..Len(q)}

\* C3 (as claimed): a command expanded from a non-empty template that holds
\* neither placeholder is the template's tokens, then the artifact path, then
\* the trailing arguments unchanged and in order.
C3_DefaultsAppended ==
    /\ (entry = "WithCmd" /\ pc = "done" /\ split_whitespace(raw) # <<>>
          /\ ~HasPlaceholder(raw)) =>
          /\ result.tag = "Ok"
          /\ command = split_whitespace(raw) \o <<artifact_str>> \o trailing_args
    /\ (Pipeline /\ Did("expand-template") /\ cmd_iter # <<>>
          /\ \A t \in Elems(cmd_iter) : ~HasPlaceholder(t)) =>
          command = cmd_iter \o <<artifact_str>> \o args_after_cargo_cmd

\* the token map of C4: {bin} -> the path, {args} -> the trailing arguments,
\* a token holding {bin} -> that text replaced, any other token unchanged
ClaimedTokenMap(tok, path, trailing) ==
    IF tok = Str("{bin}") THEN <<path>>
    ELSE IF tok = Str("{args}") THEN trailing
    ELSE IF contains(tok, "{bin}") THEN <<replace(tok, "{bin}", path)>>
    ELSE <<tok>>

\* C4 (as claimed): the expanded command is the template's tokens mapped left
\* to right by the token map above (stated for templates that hold both
\* placeholders as whole tokens, so that no default is appended).
C4_TokenMap ==
    /\ (entry = "WithCmd" /\ pc = "done"
          /\ {Str("{bin}"), Str("{args}")} \subseteq Elems(split_whitespace(raw))) =>
          /\ result.tag = "Ok"
          /\ command = flatten([i \in 1..Len(split_whitespace(raw)) |->
                                ClaimedTokenMap(split_whitespace(raw)[i], artifact_str,
                                                trailing_args)])
    /\ (Pipeline /\ Did("expand-template")
          /\ {Str("{bin}"), Str("{args}")} \subseteq Elems(cmd_iter)) =>
          command = flatten([i \in 1..Len(cmd_iter) |->
                                ClaimedTokenMap(cmd_iter[i], artifact_str,
                                                args_after_cargo_cmd)])

\* C5 (as claimed): cargo is run with the sub-operation, --message-format=json,
\* --quiet, --no-run for the Test kind, then the user's extra tokens in order.
C5_CargoArgv ==
    Pipeline =>
        \A i \in 1..Len(cargo_calls) :
            cargo_calls[i] =
                <<IF cargo_cmd.val.kind = "Run" THEN Str("build") ELSE Str("test")>>
                  \o <<Str("--message-format=json"), Str("--quiet")>>
                  \o (IF cargo_cmd.val.kind = "Test" THEN <<Str("--no-run")>> ELSE <<>>)
                  \o Tail(subcmd_str)

\* C5 (what the code does): the same vector without --no-run.
CargoArgvWithoutNoRun ==
    Pipeline =>
        \A i \in 1..Len(cargo_calls) :
            cargo_calls[i] =
                <<IF cargo_cmd.val.kind = "Run" THEN Str("build") ELSE Str("test")>>
                  \o <<Str("--message-format=json"), Str("--quiet")>>
                  \o Tail(subcmd_str)

IsPrefix(p, q) == Len(p) <= Len(q) /\ SubSeq(q, 1, Len(p)) = p

C6_State ==
    Pipeline =>
        /\ IsPrefix(steps, PipelineOrder)
        /\ Len(cargo_calls) = (IF Did("invoke-build") THEN 1 ELSE 0)
        /\ Len(launches) = (IF Did("launch") THEN 1 ELSE 0)
        /\ Did("launch") =>
              /\ build_out.spawned /\ build_out.success
              /\ Cardinality(Passing(buildopts, cargo_cmd.val.kind)) = 1
              /\ buildopt.some
        /\ Failed => pc = "done"
        /\ pc = "done" => result # Running

\* C6: every run of runner/run executes a prefix of the six steps in their
\* order, each at most once; cargo is run at most once and the wrapped command
\* is launched at most once, and only after cargo succeeded and exactly one
\* record passed the filter; once a step has failed, no step is executed, cargo
\* is not run and nothing is launched any more.
C6_SinglePass ==
    /\ []C6_State
    /\ [][Failed => UNCHANGED <<steps, cargo_calls, launches, result>>]_vars

\* C6 witness: a run went through all six steps and launched the command once
C6_FullRun ==
    /\ Pipeline /\ pc = "done" /\ steps = PipelineOrder
    /\ Len(cargo_calls) = 1 /\ Len(launches) = 1 /\ result.tag = "Ok"

\* C7 (as claimed): when cargo ends with a non-zero status the run ends in an
\* error whose message holds cargo's standard error and standard output
\* verbatim and the hint; no record is selected, nothing is launched.
C7_BuildFailureReported ==
    ((Pipeline \/ entry = "CargoCmd") /\ cargo_calls # <<>>
        /\ build_out.spawned /\ ~build_out.success) =>
        /\ result.tag = "Err"
        /\ Len(result.msg) = 5
        /\ result.msg[1] = build_out.stderr.text
        /\ result.msg[3] = build_out.stdout.lines
        /\ result.msg[5] = CARGO_FAILED_HINT
        /\ buildopt = None
        /\ launches = <<>>

FirstSep(it) ==
    IF \E i \in 1..Len(it) : it[i] = Str("--")
    THEN CHOOSE i \in 1..Len(it) : it[i] = Str("--") /\ \A j \in 1..(i - 1) : it[j] # Str("--")
    ELSE 0
BeforeFirstSep(it) == IF FirstSep(it) = 0 THEN it ELSE SubSeq(it, 1, FirstSep(it) - 1)
AfterFirstSep(it) == IF FirstSep(it) = 0 THEN <<>> ELSE SubSeq(it, FirstSep(it) + 1, Len(it))

\* C8 (as claimed): the subcommand tokens are the tokens before the first
\* "--", the trailing tokens are all tokens after it, later "--" included;
\* without a "--" every token is a subcommand token and none is trailing.
C8_SplitAtFirstSeparator ==
    /\ (Pipeline /\ Did("parse-arguments")) =>
          /\ subcmd_str = BeforeFirstSep(cargo_cmd_iter)
          /\ args_after_cargo_cmd = AfterFirstSep(cargo_cmd_iter)
    /\ (entry = "CargoCmd" /\ cargo_cmd.some) =>
          /\ cargo_cmd.val.cmd = BeforeFirstSep(cargo_cmd_iter)
          /\ cargo_cmd.val.downstream_args = AfterFirstSep(cargo_cmd_iter)

\* C8 (what runner and run do): the claim, for the split of runner.rs/lib.rs.
SplitAtFirstSeparatorInRunner ==
    (Pipeline /\ Did("parse-arguments")) =>
        /\ subcmd_str = BeforeFirstSep(cargo_cmd_iter)
        /\ args_after_cargo_cmd = AfterFirstSep(cargo_cmd_iter)

\* C9 (as claimed): a selected record without output paths ends the run in the
\* no-output-path error, not in an out-of-range fault; otherwise the path
\* extracted is the first of its output paths.
C9_NoOutputPathIsAnError ==
    (Pipeline /\ buildopt.some) =>
        IF buildopt.val.filenames = <<>>
        THEN result.tag = "Err"
        ELSE \/ artifact_str = buildopt.val.filenames[1].text
             \/ /\ ~buildopt.val.filenames[1].utf8
                /\ result = Err(<<"Filename of artifact contains non-valid UTF-8 characters">>)

\* C10 (as claimed): a launched command that exits with code c makes the tool
\* exit with c; the tool exits with 0 only if the command exited with 0, and
\* with 1 when a step of the run failed (returned an error).
C10_ExitCodePropagated ==
    (Pipeline /\ pc = "done") =>
        /\ (Did("launch") /\ child.spawned /\ child.waited) =>
              exit_status(result) = child.code
        /\ exit_status(result) = 0 =>
              (Did("launch") /\ child.spawned /\ child.waited /\ child.code = 0)
        /\ result.tag = "Err" => exit_status(result) = 1

\* ---------------------------------------------------------------------- C11
\* a line of cargo's output that is a well-formed compiler-artifact record
WellFormedArtifact(line) ==
    line.shape = "artifact" /\ line.opt.reason = "compiler-artifact"

ArtifactRecords(lines) ==
    LET kept == SelectSeq(lines, WellFormedArtifact)
    IN [i \in 1..Len(kept) |-> kept[i].opt]

\* C11: when cargo's output has been parsed, the records are, in stream
\* order, exactly those of the lines that are well-formed compiler-artifact
\* records; every other line is dropped and the run does not fail on it.
C11_OneRecordPerArtifactLine ==
    (Pipeline /\ Did("parse-output") /\ run_result.tag = "Ok") =>
        buildopts = ArtifactRecords(build_out.stdout.lines)

\* What does hold of the parser: the records kept are the decodable lines in
\* stream order, no line fails the run, and on a stream whose artifact-shaped
\* lines all have the reason compiler-artifact and kinds among TargetKind the
\* records are those of C11 (Scenario D: a notice and one artifact, one record).
DecodableLine(line) == from_str_BuildOpt(line).tag = "Ok"
ParserKeepsDecodableLines ==
    (Pipeline /\ Did("parse-output") /\ build_out.spawned /\ build_out.success
        /\ build_out.stdout.utf8) =>
        /\ run_result.tag = "Ok"
        /\ LET kept == SelectSeq(build_out.stdout.lines, DecodableLine)
           IN buildopts = [i \in 1..Len(kept) |-> kept[i].opt]
        /\ (\A i \in 1..Len(build_out.stdout.lines) :
               WellFormedArtifact(build_out.stdout.lines[i])
                 <=> DecodableLine(build_out.stdout.lines[i]))
             => buildopts = ArtifactRecords(build_out.stdout.lines)

\* ---------------------------------------------------------------------- C12
\* the records that pass the filter, in stream order
Candidates(opts, kind) == SelectSeq(opts, LAMBDA o : PassesFilter(o, kind))

\* the entry of the ambiguity error for one candidate: its name and its kind
ClaimedCandidateLine(opt) == "\t- " \o opt.target.name \o " (" \o opt.target.kind[1] \o ")"

\* the ambiguity error of the claim: one entry for each candidate, in stream
\* order, then the hint of the command kind
AmbiguityErrorListsAll(res, cands, kind) ==
    /\ res.tag = "Err"
    /\ Len(res.msg) = 3
    /\ res.msg[1] = "Found more than one possible candidate:\n\n"
    /\ Len(res.msg[2]) = Len(cands)
    /\ \A i \in 1..Len(cands) :
          res.msg[2][i] \in {ClaimedCandidateLine(cands[i]),
                             ClaimedCandidateLine(cands[i]) \o "\n"}
    /\ res.msg[3] = IF kind = "Test" THEN TEST_HINT ELSE RUN_HINT

\* C12: when two or more records pass the filter, selection ends in the
\* ambiguity error, which lists every candidate once, in stream order, with
\* its target name and kind, and carries the test-case hint exactly when the
\* command kind is Test and the run-case hint otherwise.
C12_AmbiguityErrorListsCandidates ==
    (Pipeline /\ Did("select-candidate")
        /\ Len(Candidates(buildopts, cargo_cmd.val.kind)) >= 2) =>
        AmbiguityErrorListsAll(result, Candidates(buildopts, cargo_cmd.val.kind),
                               cargo_cmd.val.kind)

\* The same, for candidates that all have at least one kind: it holds.
AmbiguityErrorUpToPanic ==
    (Pipeline /\ Did("select-candidate")
        /\ Len(Candidates(buildopts, cargo_cmd.val.kind)) >= 2
        /\ \A i \in 1..Len(buildopts) : buildopts[i].target.kind # <<>>) =>
        AmbiguityErrorListsAll(result, Candidates(buildopts, cargo_cmd.val.kind),
                               cargo_cmd.val.kind)

\* ---------------------------------------------------------------------- C13
\* the template's tokens with the defaults of the claim: {bin} is appended
\* when no token equals it, then {args} when no token equals it
ClaimedDefaults(toks) ==
    LET with_bin == IF \A i \in 1..Len(toks) : toks[i] # Str("{bin}")
                    THEN Append(toks, Str("{bin}")) ELSE toks
    IN IF \A i \in 1..Len(toks) : toks[i] # Str("{args}")
       THEN Append(with_bin, Str("{args}")) ELSE with_bin

\* a token equal to a placeholder gives way to what it stands for
ExactTokenMap(tok, path, trailing) ==
    IF tok = Str("{bin}") THEN <<path>>
    ELSE IF tok = Str("{args}") THEN trailing
    ELSE <<tok>>

IsPlaceholder(tok) == tok \in {Str("{bin}"), Str("{args}")}

\* C13 for WithCmd::new: split_cmd is the template's tokens with the defaults
\* decided by token equality, the {args} tokens replaced by the trailing arguments
C13_InWithCmd ==
    (entry = "WithCmd" /\ pc # "start") =>
        LET toks == ClaimedDefaults(split_whitespace(raw))
        IN split_cmd = flatten([i \in 1..Len(toks) |->
                                 IF toks[i] = Str("{args}") THEN trailing_args
                                 ELSE <<toks[i]>>])

\* C13 for runner and run: the command is the program, then the remaining
\* tokens with the defaults decided by token equality, placeholders expanded
C13_InRunner ==
    (Pipeline /\ Did("expand-template") /\ cmd_iter # <<>>
        /\ ~IsPlaceholder(Head(cmd_iter))) =>
        LET toks == ClaimedDefaults(cmd_iter)
        IN command = <<Head(toks)>>
                       \o flatten([i \in 1..(Len(toks) - 1) |->
                                     ExactTokenMap(toks[i + 1], artifact_str,
                                                   args_after_cargo_cmd)])

\* C13: a default placeholder is appended exactly when no token of the
\* template equals it, {bin} first and {args} after it, also when the
\* placeholder text occurs inside a larger token.
C13_DefaultsByTokenEquality == C13_InWithCmd /\ C13_InRunner

\* ---------------------------------------------------------------------- C14
EmptyWrapperErrors == {Err(<<"Empty with command">>), Err(<<"No child command given.">>)}

\* C14 for WithCmd: an empty or blank template ends in the error with no
\* command built; any other gives a command that starts with its first token
C14_InWithCmd ==
    (entry = "WithCmd" /\ pc = "done") =>
        IF split_whitespace(raw) = <<>>
        THEN result \in EmptyWrapperErrors /\ command = <<>> /\ launches = <<>>
        ELSE /\ result.tag = "Ok"
             /\ command # <<>>
             /\ command[1] \in {Head(split_whitespace(raw)),
                                 replace(Head(split_whitespace(raw)), "{bin}", artifact_str)}

\* C14 for runner and run
C14_InRunner ==
    (Pipeline /\ Did("expand-template")) =>
        IF cmd_iter = <<>>
        THEN result \in EmptyWrapperErrors /\ command = <<>> /\ launches = <<>>
        ELSE /\ command # <<>>
             /\ command[1] = Head(cmd_iter)
             /\ \A i \in 1..Len(launches) : launches[i] = command

\* C14: an empty or blank wrapper template ends the run in the
\* empty-wrapper-command error and nothing is launched; for every other
\* template the expanded command is non-empty and starts with the executable
\* taken from the template.
C14_EmptyTemplateIsAnError == C14_InWithCmd /\ C14_InRunner

\* ---------------------------------------------------------------------- C15
\* the number of elements the tokens before position j contribute: one for
\* each, except an {args} token, which contributes the trailing arguments
RECURSIVE ElementsBefore(_, _, _)
ElementsBefore(toks, j, trailing) ==
    IF j <= 1 THEN 0
    ELSE ElementsBefore(toks, j - 1, trailing)
           + (IF toks[j - 1] = Str("{args}") THEN Len(trailing) ELSE 1)

\* the elements of cmd that stand where the {args} token at position j stood
ContributedByArgs(cmd, toks, j, trailing) ==
    SubSeq(cmd, ElementsBefore(toks, j, trailing) + 1,
                ElementsBefore(toks, j, trailing) + Len(trailing))

\* every placeholder of the string is a token of its own, so that the
\* defaults appended are not in question
PlaceholdersAreTokens(raw_str) ==
    /\ contains(raw_str, "{bin}") <=> Str("{bin}") \in Elems(split_whitespace(raw_str))
    /\ contains(raw_str, "{args}") <=> Str("{args}") \in Elems(split_whitespace(raw_str))

C15_InWithCmd ==
    (entry = "WithCmd" /\ pc = "done" /\ result.tag = "Ok"
        /\ split_whitespace(raw) # <<>> /\ PlaceholdersAreTokens(raw)) =>
        LET toks == ClaimedDefaults(split_whitespace(raw))
        IN \A j \in 1..Len(toks) :
              toks[j] = Str("{args}") =>
                 ContributedByArgs(command, toks, j, trailing_args) = trailing_args

C15_InRunner ==
    (Pipeline /\ Did("expand-template") /\ cmd_iter # <<>>
        /\ ~IsPlaceholder(Head(cmd_iter))) =>
        LET toks == ClaimedDefaults(cmd_iter)
        IN \A j \in 1..Len(toks) :
              toks[j] = Str("{args}") =>
                 ContributedByArgs(command, toks, j, args_after_cargo_cmd)
                    = args_after_cargo_cmd

\* C15: the elements that stand in place of {args} in the expanded command
\* are, element for element, the trailing arguments: the {bin} substitution
\* touches the template's tokens only.
C15_TrailingArgsUnchanged == C15_InWithCmd /\ C15_InRunner

====
